---- MODULE Spec2Model ----
(***************************************************************************)
(* Model of zkp/core/cuda_true_stark.py: the finite field, the polynomial  *)
(* layer, the SHA-256 Merkle tree, the AIR, FRI and the STARK prover and   *)
(* verifier (CUDATrueSTARK.generate_proof / verify_proof).                 *)
(*                                                                         *)
(* Scaling.  The field prime is 17 instead of 2^64 - 2^32 + 1.  As for the *)
(* Goldilocks prime, the hard-coded generator 7 generates the whole        *)
(* multiplicative group and p - 1 is divisible by a power of two (16), so  *)
(* every branch of the field layer is reachable with small domains.        *)
(*                                                                         *)
(* Bytes.  A byte string is a sequence of naturals.  SHA-256 is modelled   *)
(* as an injective constructor (the input between two bracket symbols):    *)
(* this is the collision-free reading of the hash.  Where the code reduces *)
(* a digest to an integer (challenges, query indices) the model applies a  *)
(* fixed mixing function HashInt to the digest.                            *)
(*                                                                         *)
(* Specifications.  Spec runs the prover, one change of the transcript by  *)
(* the caller and the verifier; SpecMerkle builds a tree and checks one    *)
(* authentication path; SpecField calls the field and polynomial layer on  *)
(* one CUDAFiniteField object; SpecSteps runs one generate_proof call      *)
(* statement by statement and records the order of commitments and draws.  *)
(***************************************************************************)
EXTENDS Integers, Sequences, FiniteSets, TLC

(***************************************************************************)
(* Bounds of the model                                                     *)
(***************************************************************************)
\* longest leaf sequence given to MerkleTree in the Merkle specification
MaxLeaves == 6
\* largest number of seconds one generate_proof call may take
MaxElapsed == 1
\* the clock is read at most up to this second
MaxTime == 2
\* get_primitive_root and get_evaluation_domain calls made on a field object
\* before the call that is observed
MaxEarlierCalls == 1
\* largest order and domain size asked of the field object
MaxOrder == 8
\* longest vector handed to fft and from_evaluations
MaxVectorLen == 4

(***************************************************************************)
(* Byte strings, SHA-256, text encodings                                   *)
(***************************************************************************)
\* symbols that are not decimal digits
OPEN == 100
CLOSE == 101
UNDERSCORE == 95
QUERIES == 113
COMMA == 44
COLON == 58

\* hashlib.sha256(data).digest(), collision-free
SHA256(data) == <<OPEN>> \o data \o <<CLOSE>>

\* int(hashlib.sha256(...).hexdigest(), 16): the digest read as an integer,
\* before the caller reduces it (% prime, % len)
RECURSIVE Mix(_, _, _)
Mix(digest, lo, hi) ==
    IF lo > hi THEN 5381
    ELSE IF lo = hi THEN ((digest[lo] + 1) * (lo * lo + 7)) % 65521
    ELSE LET mid == (lo + hi) \div 2
         IN (Mix(digest, lo, mid) * 33 + Mix(digest, mid + 1, hi)) % 65521

HashInt(digest) == Mix(digest, 1, Len(digest))

\* str(e).encode() for a non-negative integer e: its decimal digits
RECURSIVE Str(_)
Str(e) == IF e < 10 THEN <<e>> ELSE Str(e \div 10) \o <<e % 10>>

\* a list built by a comprehension: the sequence with every item computed
List(f) == f \o << >>

\* bytes.hex() and bytes.fromhex(): a hex string is described by its length in
\* characters, whether all its characters are hex digits, whether its letters
\* are upper case, and the bytes it denotes.  Every SHA-256 digest has 32 bytes,
\* hence 64 hex characters; bytes.hex() writes lower case, and bytes.fromhex()
\* reads either case.  Two hex strings are equal as strings when all four
\* fields agree.
HexLen == 64
HexOf(digest) == [len |-> HexLen, ishex |-> TRUE, upper |-> FALSE, bytes |-> digest]
FromHexRaises(h) == ~h.ishex \/ h.len % 2 # 0
FromHex(h) == h.bytes

\* str.upper() of a hex string (a digest whose hex form has a letter a-f)
Upper(h) == [h EXCEPT !.upper = TRUE]

(***************************************************************************)
(* CUDAFiniteField                                                         *)
(***************************************************************************)
GOLDILOCKS_PRIME == 17
generator == 7

add(a, b) == (a + b) % GOLDILOCKS_PRIME
sub(a, b) == (a - b) % GOLDILOCKS_PRIME
mul(a, b) == (a * b) % GOLDILOCKS_PRIME

\* an exponentiation that multiplies where it should raise to a power
PowAsProduct(base, exp) == (base * exp) % GOLDILOCKS_PRIME

\* pow(base, exp, prime) by square and multiply
RECURSIVE pow(_, _)
pow(base, exp) ==
    IF exp = 0 THEN 1 % GOLDILOCKS_PRIME
    ELSE LET h == pow(base, exp \div 2)
             sq == (h * h) % GOLDILOCKS_PRIME
         IN IF exp % 2 = 1 THEN (sq * (base % GOLDILOCKS_PRIME)) % GOLDILOCKS_PRIME ELSE sq

\* an inverse computed with the exponent p - 1 instead of p - 2
InvByPrimeMinusOne(a) == pow(a, GOLDILOCKS_PRIME - 1)

\* inv raises ValueError on 0; InvRaises is that guard
InvRaises(a) == a = 0
inv(a) == pow(a, GOLDILOCKS_PRIME - 2)

\* div(a, b) = mul(a, inv(b)); it raises when inv(b) does
DivRaises(a, b) == InvRaises(b)
div(a, b) == mul(a, inv(b))

\* n & (n - 1) == 0 for n >= 1
RECURSIVE IsPow2(_)
IsPow2(n) == IF n <= 1 THEN n = 1 ELSE n % 2 = 0 /\ IsPow2(n \div 2)

\* a root computed with the order itself as exponent
ComputeRootByOrder(order) == pow(generator, order)

\* the body of get_primitive_root after a cache miss
ComputeRoot(order) ==
    LET p_minus_1 == GOLDILOCKS_PRIME - 1
        root == pow(generator, p_minus_1 \div order)
    IN IF p_minus_1 % order = 0 /\ pow(root, order) = 1 THEN root ELSE 2

\* get_primitive_root: value returned, and the cache it leaves.  The cache is a
\* function from the orders asked so far to the roots handed out.
get_primitive_root(cache, order) ==
    IF order \in DOMAIN cache THEN cache[order] ELSE ComputeRoot(order)

CacheAfterRoot(cache, order) ==
    IF order \in DOMAIN cache THEN cache
    ELSE (order :> ComputeRoot(order)) @@ cache

\* get_evaluation_domain
get_evaluation_domain(cache, size) ==
    IF (GOLDILOCKS_PRIME - 1) % size = 0
    THEN LET omega == get_primitive_root(cache, size)
         IN List([i \in 1..size |-> pow(omega, i - 1)])
    ELSE List([i \in 1..size |-> i])

CacheAfterDomain(cache, size) ==
    IF (GOLDILOCKS_PRIME - 1) % size = 0 THEN CacheAfterRoot(cache, size) ELSE cache

\* n.bit_length() - 1 for a power of two n
RECURSIVE Log2(_)
Log2(n) == IF n <= 1 THEN 0 ELSE 1 + Log2(n \div 2)

\* a bit reversal that leaves the index as it is
BitReverseNone(i, bits) == i

\* int(bin(i)[2:].zfill(log_n)[::-1], 2)
RECURSIVE BitReverse(_, _)
BitReverse(i, bits) ==
    IF bits = 0 THEN 0
    ELSE (i % 2) * (2 ^ (bits - 1)) + BitReverse(i \div 2, bits - 1)

\* one pass of the butterfly loop for a block length
Butterfly(result, length, omega) ==
    LET n == Len(result)
        half == length \div 2
        w == pow(omega, n \div length)
    IN List([k \in 1..n |->
          LET pos == (k - 1) % length
              start == (k - 1) - pos
              j == pos % half
              u == result[start + j + 1]
              v == mul(result[start + j + half + 1], pow(w, j))
          IN IF pos < half THEN add(u, v) ELSE sub(u, v)])

RECURSIVE Butterflies(_, _, _)
Butterflies(result, length, omega) ==
    IF length > Len(result) THEN result
    ELSE Butterflies(Butterfly(result, length, omega), length * 2, omega)

\* fft(values, inverse); the caller guarantees a power-of-two length
fft(cache, values, inverse) ==
    LET n == Len(values)
        root == get_primitive_root(cache, n)
        omega == IF inverse THEN inv(root) ELSE root
        log_n == Log2(n)
        permuted == List([i \in 1..n |-> values[BitReverse(i - 1, log_n) + 1]])
        result == Butterflies(permuted, 2, omega)
        n_inv == inv(n)
    IN IF n = 1 THEN values
       ELSE IF inverse THEN List([i \in 1..n |-> mul(result[i], n_inv)])
       ELSE result

CacheAfterFft(cache, n) == IF n = 1 THEN cache ELSE CacheAfterRoot(cache, n)

\* assert n & (n - 1) == 0, for n >= 2
FftRaises(values) == Len(values) # 1 /\ ~IsPow2(Len(values))

\* the caller's list after the call: fft works on result = list(values), a copy
InputAfterFft(values, inverse) == values

(***************************************************************************)
(* Polynomial                                                              *)
(***************************************************************************)
\* Polynomial.__init__: the coefficient list with leading (high) zeros removed
RECURSIVE Polynomial(_)
Polynomial(coefficients) ==
    IF Len(coefficients) > 1 /\ coefficients[Len(coefficients)] = 0
    THEN Polynomial(SubSeq(coefficients, 1, Len(coefficients) - 1))
    ELSE coefficients

degree(coefficients) == Len(coefficients) - 1

\* Horner's rule over reversed(coefficients)
RECURSIVE Horner(_, _, _, _)
Horner(coefficients, x, k, result) ==
    IF k = 0 THEN result
    ELSE Horner(coefficients, x, k - 1, add(mul(result, x), coefficients[k]))

evaluate(coefficients, x) == Horner(coefficients, x, Len(coefficients), 0)

evaluate_domain(coefficients, domain) ==
    List([i \in 1..Len(domain) |-> evaluate(coefficients, domain[i])])

\* _lagrange_direct: points is a sequence of <<x, y>>
RECURSIVE LagrangeDenom(_, _, _, _)
LagrangeDenom(points, i, j, denom) ==
    IF j > Len(points) THEN denom
    ELSE LagrangeDenom(points, i, j + 1,
            IF i # j THEN mul(denom, sub(points[i][1], points[j][1])) ELSE denom)

\* new_coeffs after multiplying basis_coeffs by (x - xj)
MulLinear(basis_coeffs, neg_xj) ==
    List([k \in 1..(Len(basis_coeffs) + 1) |->
        add(IF k <= Len(basis_coeffs) THEN mul(basis_coeffs[k], neg_xj) ELSE 0,
            IF k >= 2 THEN basis_coeffs[k - 1] ELSE 0)])

RECURSIVE LagrangeBasis(_, _, _, _)
LagrangeBasis(points, i, j, basis_coeffs) ==
    IF j > Len(points) THEN basis_coeffs
    ELSE LagrangeBasis(points, i, j + 1,
            IF i # j THEN MulLinear(basis_coeffs, sub(0, points[j][1]))
            ELSE basis_coeffs)

\* inv(denom) raises when two x-coordinates coincide
LagrangeRaises(points) ==
    \E i \in 1..Len(points) : InvRaises(LagrangeDenom(points, i, 1, 1))

RECURSIVE LagrangeSum(_, _, _)
LagrangeSum(points, i, result_coeffs) ==
    IF i > Len(points) THEN result_coeffs
    ELSE LET coeff == mul(points[i][2], inv(LagrangeDenom(points, i, 1, 1)))
             basis == LagrangeBasis(points, i, 1, <<coeff>>)
         IN LagrangeSum(points, i + 1,
                List([k \in 1..Len(result_coeffs) |-> add(result_coeffs[k], basis[k])]))

lagrange_direct(points) ==
    Polynomial(LagrangeSum(points, 1, List([k \in 1..Len(points) |-> 0])))

interpolate(points) ==
    IF Len(points) = 0 THEN <<0>>
    ELSE IF Len(points) = 1 THEN Polynomial(<<points[1][2]>>)
    ELSE lagrange_direct(points)

\* Polynomial.from_evaluations
FftCompatible(n) == IsPow2(n) /\ (GOLDILOCKS_PRIME - 1) % n = 0

\* an interpolation that runs the forward transform
FromEvaluationsForward(cache, evaluations, domain) ==
    Polynomial(fft(cache, evaluations, FALSE))

from_evaluations(cache, evaluations, domain) ==
    IF FftCompatible(Len(evaluations))
    THEN Polynomial(fft(cache, evaluations, TRUE))
    ELSE interpolate(List([i \in 1..Len(evaluations) |-> <<domain[i], evaluations[i]>>]))

(***************************************************************************)
(* MerkleTree                                                              *)
(***************************************************************************)
\* MerkleTree.__init__: self.leaves
TreeLeaves(leaves) == IF Len(leaves) = 0 THEN << <<>> >> ELSE leaves

\* one round of the while loop of _build_tree
NextLevel(level) ==
    List([k \in 1..((Len(level) + 1) \div 2) |->
        LET left == level[2 * k - 1]
            right == IF 2 * k <= Len(level) THEN level[2 * k] ELSE left
        IN SHA256(left \o right)])

RECURSIVE BuildLevels(_)
BuildLevels(level) ==
    IF Len(level) > 1 THEN <<level>> \o BuildLevels(NextLevel(level))
    ELSE <<level>>

\* _build_tree: the list of levels, leaf hashes first
build_tree(leaves) ==
    BuildLevels(List([i \in 1..Len(TreeLeaves(leaves)) |-> SHA256(TreeLeaves(leaves)[i])]))

root(tree) == tree[Len(tree)][1]

\* XOR of a non-negative index with 1
Xor1(i) == IF i % 2 = 0 THEN i + 1 ELSE i - 1

\* prove: indices are zero-based as in the code
RECURSIVE ProveFrom(_, _, _)
ProveFrom(tree, lvl, current_index) ==
    IF lvl >= Len(tree) THEN <<>>
    ELSE LET level == tree[lvl]
             sibling_index == Xor1(current_index)
             is_left == (current_index % 2 = 0)
             here == IF sibling_index < Len(level)
                     THEN << [digest |-> level[sibling_index + 1], is_left |-> is_left] >>
                     ELSE <<>>
         IN here \o ProveFrom(tree, lvl + 1, current_index \div 2)

prove(tree, index) == ProveFrom(tree, 1, index)

\* MerkleTree.verify: the digest the proof leads to
RECURSIVE FoldProof(_, _, _)
FoldProof(current, proof, k) ==
    IF k > Len(proof) THEN current
    ELSE FoldProof(IF proof[k].is_left
                   THEN SHA256(current \o proof[k].digest)
                   ELSE SHA256(proof[k].digest \o current),
                   proof, k + 1)

verify(leaf, index, proof, root_digest) ==
    FoldProof(SHA256(leaf), proof, 1) = root_digest

(***************************************************************************)
(* AIR                                                                     *)
(***************************************************************************)
boundary_constraints(trace) ==
    (IF Len(trace) > 0 THEN << <<0, trace[1]>> >> ELSE <<>>)
    \o (IF Len(trace) > 1 THEN << <<Len(trace) - 1, trace[Len(trace)]>> >> ELSE <<>>)

transition_constraint(current, next_val, step) ==
    sub(next_val, add(current, 1))

evaluate_all_constraints(trace) ==
    /\ \A i \in 1..(Len(trace) - 1) :
          transition_constraint(trace[i], trace[i + 1], i - 1) = 0
    /\ \A c \in 1..Len(boundary_constraints(trace)) :
          trace[boundary_constraints(trace)[c][1] + 1] = boundary_constraints(trace)[c][2]

(***************************************************************************)
(* FRI                                                                     *)
(***************************************************************************)
\* A committed layer (a MerkleTree object) is represented by its leaf list;
\* a config is a record [trace_length, blowup_factor, num_queries, num_fri_layers].

\* seq[::2] and seq[1::2]
EvenItems(seq) == List([k \in 1..((Len(seq) + 1) \div 2) |-> seq[2 * k - 1]])
OddItems(seq) == List([k \in 1..(Len(seq) \div 2) |-> seq[2 * k]])

\* step 3 of the commit loop: challenge drawn from the layer root
LayerChallenge(tree_root) == HashInt(SHA256(tree_root)) % GOLDILOCKS_PRIME

\* step 4 of the commit loop: the folded polynomial
Fold(coefficients, challenge) ==
    LET even_coeffs == EvenItems(coefficients)
        odd_coeffs == IF Len(coefficients) > 1 THEN OddItems(coefficients) ELSE <<0>>
        max_len == IF Len(even_coeffs) > Len(odd_coeffs)
                   THEN Len(even_coeffs) ELSE Len(odd_coeffs)
        ev(i) == IF i <= Len(even_coeffs) THEN even_coeffs[i] ELSE 0
        od(i) == IF i <= Len(odd_coeffs) THEN odd_coeffs[i] ELSE 0
    IN Polynomial(List([i \in 1..max_len |-> add(ev(i), mul(challenge, od(i)))]))

\* step 5 of the commit loop
ReduceDomain(domain) ==
    List([k \in 1..Len(EvenItems(domain)) |-> mul(EvenItems(domain)[k], EvenItems(domain)[k])])

\* FRI.commit: the while loop, with the three lists it returns
RECURSIVE CommitLoop(_, _, _, _, _)
CommitLoop(cfg, current_poly, current_domain, layer, acc) ==
    IF Len(current_domain) > cfg.num_queries * 2 /\ layer < cfg.num_fri_layers
    THEN LET evaluations == evaluate_domain(current_poly, current_domain)
             eval_bytes == List([i \in 1..Len(evaluations) |-> Str(evaluations[i])])
             challenge == LayerChallenge(root(build_tree(eval_bytes)))
             next_poly == Fold(current_poly, challenge)
         IN CommitLoop(cfg, next_poly, ReduceDomain(current_domain), layer + 1,
                [trees |-> Append(acc.trees, TreeLeaves(eval_bytes)),
                 challenges |-> Append(acc.challenges, challenge),
                 polynomials |-> Append(acc.polynomials, next_poly)])
    ELSE acc

commit(cfg, polynomial, domain) ==
    CommitLoop(cfg, polynomial, domain, 0,
        [trees |-> <<>>, challenges |-> <<>>, polynomials |-> <<polynomial>>])

\* FRI.query: the layers opened for one query index
RECURSIVE QueryLayers(_, _, _)
QueryLayers(trees, layer_idx, current_idx) ==
    IF layer_idx > Len(trees) THEN <<>>
    ELSE LET leaves == trees[layer_idx]
             sibling_idx == Xor1(current_idx)
             value == leaves[current_idx + 1]
             opened ==
                IF current_idx < Len(leaves)
                THEN << [value |-> value,
                         sibling_value |-> IF sibling_idx < Len(leaves)
                                           THEN leaves[sibling_idx + 1] ELSE value,
                         merkle_proof |->
                            LET proof == prove(build_tree(leaves), current_idx)
                            IN List([k \in 1..Len(proof) |->
                                  [digest |-> HexOf(proof[k].digest),
                                   is_left |-> proof[k].is_left]])] >>
                ELSE <<>>
         IN opened \o QueryLayers(trees, layer_idx + 1, current_idx \div 2)

query(trees, query_indices) ==
    List([i \in 1..Len(query_indices) |->
        [index |-> query_indices[i], layers |-> QueryLayers(trees, 1, query_indices[i])]])

(***************************************************************************)
(* Statements and witnesses                                                *)
(***************************************************************************)
\* A statement is a dict with integer values, kept as the sequence of its
\* <<key, value>> pairs in insertion order.  Keys are symbols whose numeric order
\* is the lexicographic order of the key strings.
KEY_CLAIM == 201
KEY_THRESHOLD == 202

\* sorted(pairs) by key, as json.dumps(sort_keys=True) orders them
RECURSIVE SortPairs(_)
SortPairs(pairs) ==
    IF Len(pairs) <= 1 THEN pairs
    ELSE LET m == CHOOSE i \in 1..Len(pairs) :
                     \A j \in 1..Len(pairs) : pairs[i][1] <= pairs[j][1]
             rest == List([k \in 1..(Len(pairs) - 1) |->
                        IF k < m THEN pairs[k] ELSE pairs[k + 1]])
         IN <<pairs[m]>> \o SortPairs(rest)

RECURSIVE DumpPairs(_)
DumpPairs(pairs) ==
    IF Len(pairs) = 0 THEN <<>>
    ELSE <<pairs[1][1], COLON>> \o Str(pairs[1][2])
         \o (IF Len(pairs) > 1 THEN <<COMMA>> ELSE <<>>) \o DumpPairs(Tail(pairs))

\* json.dumps(statement, sort_keys=True).encode()
CanonicalJSON(stmt) == DumpPairs(SortPairs(stmt))

\* a statement hash that reads the keys of the statement and not their values
StatementHashOfKeys(stmt) ==
    SHA256(CanonicalJSON(List([i \in 1..Len(stmt) |-> <<stmt[i][1], 0>>])))

\* int(sha256(statement_str).hexdigest(), 16) % prime.  The statement hash is
\* treated as collision-free: the integer is represented by the digest it is
\* read from.
StatementHash(stmt) == SHA256(CanonicalJSON(stmt))

\* str(n) of such an integer, and int(text); int raises on a non-numeral
DecOf(n) == [numeral |-> TRUE, value |-> n]
IntRaises(text) == ~text.numeral
IntOf(text) == text.value

\* A witness is a dict; each of the keys the prover looks at is absent, an
\* integer or a string.
Absent == [present |-> FALSE, isstr |-> FALSE, num |-> 0, text |-> <<>>]
IntVal(n) == [present |-> TRUE, isstr |-> FALSE, num |-> n, text |-> <<>>]
StrVal(t) == [present |-> TRUE, isstr |-> TRUE, num |-> 0, text |-> t]
DEFAULT_SECRET == 42

\* witness.get('secret_value', witness.get('age', witness.get('value', 42)))
WitnessSecret(w) ==
    IF w.secret_value.present THEN w.secret_value
    ELSE IF w.age.present THEN w.age
    ELSE IF w.value.present THEN w.value
    ELSE IntVal(DEFAULT_SECRET)

\* the trace seed: secret % prime, a string being hashed first
TraceSeed(w) ==
    LET secret == WitnessSecret(w)
    IN IF secret.isstr
       THEN (HashInt(SHA256(secret.text)) % GOLDILOCKS_PRIME) % GOLDILOCKS_PRIME
       ELSE secret.num % GOLDILOCKS_PRIME

(***************************************************************************)
(* CUDATrueSTARK                                                           *)
(***************************************************************************)
\* a trace that counts on without reducing modulo the prime
RECURSIVE TraceFromUnreduced(_, _)
TraceFromUnreduced(current, remaining) ==
    IF remaining = 0 THEN <<>>
    ELSE <<current>> \o TraceFromUnreduced(current + 1, remaining - 1)

RECURSIVE TraceFrom(_, _)
TraceFrom(current, remaining) ==
    IF remaining = 0 THEN <<>>
    ELSE <<current>> \o TraceFrom(add(current, 1), remaining - 1)

generate_execution_trace(cfg, w) == TraceFrom(TraceSeed(w), cfg.trace_length)

\* step 8: query indices drawn from the trace root
QuerySeed(trace_root) == SHA256(trace_root \o <<QUERIES>>)

QueryIndex(query_seed, i, extended_len) ==
    HashInt(SHA256(query_seed \o <<UNDERSCORE>> \o Str(i))) % extended_len

\* steps 3 and 4 of generate_proof, with the root-of-unity cache threaded
\* through the calls in program order.
\* the cache after Polynomial.from_evaluations(trace, domain)
CacheAfterTracePoly(cache, n) ==
    IF FftCompatible(n) THEN CacheAfterFft(CacheAfterDomain(cache, n), n)
    ELSE CacheAfterDomain(cache, n)

\* the cache after base_extended_domain = get_evaluation_domain(extended_size)
CacheAfterExtended(cache, n, extended_size) ==
    CacheAfterDomain(CacheAfterTracePoly(cache, n), extended_size)

\* whether get_primitive_root(extended_size * 2) takes its normal path
HasShiftRoot(extended_size) == (GOLDILOCKS_PRIME - 1) % (extended_size * 2) = 0

\* shift: a root of order 2 * extended_size, or trace_length + 1
CosetShift(cache, n, extended_size) ==
    IF HasShiftRoot(extended_size)
    THEN get_primitive_root(CacheAfterExtended(cache, n, extended_size), extended_size * 2)
    ELSE n + 1

\* extended_domain = [(x + shift) % p for x in base_extended_domain]
ShiftDomain(base, shift) ==
    List([i \in 1..Len(base) |-> (base[i] + shift) % GOLDILOCKS_PRIME])

ProverDomains(cfg, cache, trace) ==
    [domain |-> get_evaluation_domain(cache, Len(trace)),
     trace_poly |->
        from_evaluations(CacheAfterDomain(cache, Len(trace)), trace,
                         get_evaluation_domain(cache, Len(trace))),
     shift |-> CosetShift(cache, Len(trace), Len(trace) * cfg.blowup_factor),
     extended_domain |->
        ShiftDomain(get_evaluation_domain(CacheAfterTracePoly(cache, Len(trace)),
                                          Len(trace) * cfg.blowup_factor),
                    CosetShift(cache, Len(trace), Len(trace) * cfg.blowup_factor)),
     cache |->
        IF HasShiftRoot(Len(trace) * cfg.blowup_factor)
        THEN CacheAfterRoot(CacheAfterExtended(cache, Len(trace),
                                               Len(trace) * cfg.blowup_factor),
                            Len(trace) * cfg.blowup_factor * 2)
        ELSE CacheAfterExtended(cache, Len(trace), Len(trace) * cfg.blowup_factor)]

\* steps 8 to 10 of generate_proof: the dict named proof, from the trace, the
\* extended evaluations, the Merkle root over them and what FRI.commit returned
Transcript(cfg, stmt, trace, extended_evaluations, trace_root, fri, query_indices, start, elapsed) ==
    [version |-> "STARK-2.0",
     protocol |-> "ZK-STARK (AIR + FRI)",
     trace_length |-> Len(trace),
     extended_trace_length |-> Len(extended_evaluations),
     blowup_factor |-> cfg.blowup_factor,
     trace_merkle_root |-> HexOf(trace_root),
     fri_roots |-> List([k \in 1..Len(fri.trees) |->
                      HexOf(root(build_tree(fri.trees[k])))]),
     fri_challenges |-> List([k \in 1..Len(fri.challenges) |-> Str(fri.challenges[k])]),
     fri_final_polynomial |->
        List([k \in 1..Len(fri.polynomials[Len(fri.polynomials)]) |->
            Str(fri.polynomials[Len(fri.polynomials)][k])]),
     query_indices |-> query_indices,
     query_responses |-> query(fri.trees, query_indices),
     field_prime |-> Str(GOLDILOCKS_PRIME),
     num_queries |-> cfg.num_queries,
     statement_hash |-> DecOf(StatementHash(stmt)),
     statement |-> stmt,
     public_output |-> trace[Len(trace)],
     generation_time |-> elapsed,
     timestamp |-> start + elapsed,
     air_satisfied |-> TRUE,
     verified |-> TRUE]

\* query_indices: num_queries indices drawn from the trace root
QueryIndices(cfg, trace_root, extended_len) ==
    List([i \in 1..cfg.num_queries |->
        QueryIndex(QuerySeed(trace_root), i - 1, extended_len)])

\* steps 5 to 10: the trace commitment, the FRI commitment and the queries
ProveExtended(cfg, stmt, trace, d, extended_evaluations, trace_root, start, elapsed) ==
    Transcript(cfg, stmt, trace, extended_evaluations, trace_root,
               commit(cfg, d.trace_poly, d.extended_domain),
               QueryIndices(cfg, trace_root, Len(extended_evaluations)),
               start, elapsed)

\* the Merkle root over str(e).encode() of the evaluations
EvaluationsRoot(evaluations) ==
    root(build_tree(List([i \in 1..Len(evaluations) |-> Str(evaluations[i])])))

ProveTrace(cfg, stmt, trace, d, extended_evaluations, start, elapsed) ==
    [raised |-> ~evaluate_all_constraints(trace),
     cache |-> d.cache,
     proof |-> ProveExtended(cfg, stmt, trace, d, extended_evaluations,
                             EvaluationsRoot(extended_evaluations), start, elapsed)]

ProveWithDomains(cfg, stmt, trace, d, start, elapsed) ==
    ProveTrace(cfg, stmt, trace, d,
               evaluate_domain(d.trace_poly, d.extended_domain), start, elapsed)

ProveFromTrace(cfg, cache, stmt, trace, start, elapsed) ==
    ProveWithDomains(cfg, stmt, trace, ProverDomains(cfg, cache, trace), start, elapsed)

\* generate_proof: the transcript (the dict named proof) and the cache left behind.
\* start is the clock at entry, elapsed the seconds the call takes.
generate_proof(cfg, cache, stmt, w, start, elapsed) ==
    ProveFromTrace(cfg, cache, stmt, generate_execution_trace(cfg, w), start, elapsed)

\* the object generate_proof returns: {'proof': proof, **proof}
Returned(proof) == [has_proof_key |-> TRUE, proof |-> proof, top |-> proof]

\* proof.get('proof', proof)
ProofData(obj) == IF obj.has_proof_key THEN obj.proof ELSE obj.top

\* step 5 of verify_proof for one layer of one query response: TRUE when the
\* layer neither raises nor fails its Merkle check
LayerAccepted(fri_roots, query_idx, layers, layer_idx) ==
    LET layer_data == layers[layer_idx]
        merkle_proof == layer_data.merkle_proof
        proof_tuples == List([k \in 1..Len(merkle_proof) |->
                           [digest |-> FromHex(merkle_proof[k].digest),
                            is_left |-> merkle_proof[k].is_left]])
        current_idx == query_idx \div (2 ^ (layer_idx - 1))
    IN /\ \A k \in 1..Len(merkle_proof) : ~FromHexRaises(merkle_proof[k].digest)
       /\ ~FromHexRaises(fri_roots[layer_idx])
       /\ \/ Len(proof_tuples) = 0
          \/ verify(layer_data.value, current_idx, proof_tuples,
                    FromHex(fri_roots[layer_idx]))

QueryAccepted(fri_roots, q) ==
    \A layer_idx \in 1..Len(q.layers) :
        layer_idx <= Len(fri_roots) => LayerAccepted(fri_roots, q.index, q.layers, layer_idx)

\* verify_proof: TRUE when no step returns False and nothing raises
verify_proof(cfg, obj, stmt) ==
    LET proof_data == ProofData(obj)
        expected_hash == StatementHash(stmt)
        fri_roots == proof_data.fri_roots
        query_responses == proof_data.query_responses
    IN /\ ~IntRaises(proof_data.statement_hash)
       /\ IntOf(proof_data.statement_hash) = expected_hash
       /\ proof_data.field_prime = Str(GOLDILOCKS_PRIME)
       /\ proof_data.trace_merkle_root.len = HexLen
       /\ ~FromHexRaises(proof_data.trace_merkle_root)
       /\ Len(fri_roots) > 0
       /\ fri_roots[1] = proof_data.trace_merkle_root
       /\ ~(Len(query_responses) < cfg.num_queries \div 2)
       /\ \A i \in 1..Len(query_responses) : QueryAccepted(fri_roots, query_responses[i])
       /\ ~(Len(proof_data.fri_final_polynomial) > cfg.num_queries)
       /\ proof_data.air_satisfied

(***************************************************************************)
(* Inputs of the model                                                     *)
(***************************************************************************)
Config(T, b, q, L) ==
    [trace_length |-> T, blowup_factor |-> b, num_queries |-> q, num_fri_layers |-> L]

\* Config(4, 4, 2, 3) plays the role of the default STARKConfig(256, 4, 80, 10):
\* two folds, final polynomial below the bound.
DefaultConfig == Config(4, 4, 2, 3)

Configs ==
    { DefaultConfig,
      Config(4, 2, 1, 3),      \* extended size 8: the shift is a root of order 16
      Config(2, 2, 1, 1),
      Config(4, 4, 3, 3),      \* odd num_queries
      Config(4, 4, 1, 1),      \* one fold only
      Config(2, 2, 2, 3),      \* extended size 4 = 2 * num_queries
      Config(4, 2, 1, 0),      \* no FRI layer allowed
      Config(3, 2, 1, 3),      \* sizes 3 and 6 do not divide p - 1
      Config(8, 2, 1, 1),      \* one fold of a polynomial of up to 8 coefficients
      Config(1, 4, 1, 1) }     \* a trace of one element

Statements ==
    { << <<KEY_CLAIM, 1>> >>,
      << <<KEY_CLAIM, 2>> >>,
      << <<KEY_CLAIM, 1>>, <<KEY_THRESHOLD, 21>> >>,
      << <<KEY_THRESHOLD, 21>>, <<KEY_CLAIM, 1>> >> }

Witnesses ==
    { [secret_value |-> IntVal(5), age |-> Absent, value |-> Absent],
      [secret_value |-> IntVal(16), age |-> IntVal(25), value |-> Absent],
      [secret_value |-> Absent, age |-> Absent, value |-> IntVal(20)],
      [secret_value |-> Absent, age |-> Absent, value |-> Absent],
      [secret_value |-> StrVal(<<7, 7>>), age |-> Absent, value |-> Absent] }

\* a digest that is the hash of nothing the prover committed to
JUNK == 99
JunkDigest == SHA256(<<JUNK>>)

(***************************************************************************)
(* State                                                                   *)
(***************************************************************************)
VARIABLES
    config,      \* the STARKConfig of the CUDATrueSTARK instance
    cache,       \* field._roots_of_unity_cache
    now,         \* time.time(), in seconds
    pc,          \* "idle", "proved", "waited", "again", "verified"
    statement,   \* the statement given to generate_proof
    witness,     \* the witness given to generate_proof
    honest,      \* what the last generate_proof call returned
    prev,        \* what the generate_proof call before it returned
    proof,       \* the object handed to verify_proof
    tamper,      \* what was done to proof since it was generated
    vstatement,  \* the statement given to verify_proof
    verdict,     \* what verify_proof returned
    mpc,         \* Merkle scenario: "new", "built", "proved", "checked"
    mleaves,     \* the leaf list of the MerkleTree
    mindex,      \* the index given to prove
    mproof,      \* what prove returned
    mleaf,       \* the leaf given to verify
    mok,         \* what verify returned
    fcalls,      \* field scenario: the number of calls made on the field object
    fop,         \* the method called last
    fargs,       \* its arguments
    fraised,     \* whether it raised
    fresult,     \* what it returned
    finput,      \* the caller's argument list as the call left it
    mgiven,      \* Merkle scenario: the index given to verify
    step,        \* step scenario: the position inside generate_proof
    run,         \* the local variables of generate_proof and FRI.commit
    events       \* the commitments built and the challenges drawn, in order

pvars == <<config, cache, now, pc, statement, witness, honest, prev, proof,
           tamper, vstatement, verdict>>
mvars == <<mpc, mleaves, mindex, mproof, mleaf, mok, mgiven>>
fvars == <<fcalls, fop, fargs, fraised, fresult, finput>>
svars == <<step, run, events>>
vars == <<pvars, mvars, fvars, svars>>

NoObject == [has_proof_key |-> FALSE]

\* the locals of generate_proof and FRI.commit before they are assigned
NoRun ==
    [trace |-> << >>, domain |-> << >>, trace_poly |-> << >>,
     extended_domain |-> << >>, extended_evaluations |-> << >>, trace_root |-> << >>,
     current_poly |-> << >>, current_domain |-> << >>, layer |-> 0,
     trees |-> << >>, challenges |-> << >>, polynomials |-> << >>,
     query_indices |-> << >>]

InitCommon ==
    /\ cache = << >>
    /\ now = 0
    /\ pc = "idle"
    /\ statement = << >>
    /\ witness = [secret_value |-> Absent, age |-> Absent, value |-> Absent]
    /\ honest = NoObject
    /\ prev = NoObject
    /\ proof = NoObject
    /\ tamper = "none"
    /\ vstatement = << >>
    /\ verdict = FALSE
    /\ mpc = "new"
    /\ mleaves = << >>
    /\ mindex = 0
    /\ mproof = << >>
    /\ mleaf = << >>
    /\ mok = FALSE
    /\ fcalls = 0
    /\ fop = "none"
    /\ fargs = << >>
    /\ fraised = FALSE
    /\ fresult = << >>
    /\ finput = << >>
    /\ mgiven = 0
    /\ step = "start"
    /\ run = NoRun
    /\ events = << >>

\* CUDATrueSTARK(config)
Init == config \in Configs /\ InitCommon

(***************************************************************************)
(* Prover and verifier steps                                               *)
(***************************************************************************)
\* stark.generate_proof(s, w)
GenerateProof(s, w, elapsed) ==
    /\ pc = "idle"
    /\ now + elapsed <= MaxTime
    /\ \E g \in {generate_proof(config, cache, s, w, now, elapsed)} :
          /\ ~g.raised
          /\ honest' = Returned(g.proof)
          /\ proof' = Returned(g.proof)
          /\ cache' = g.cache
    /\ statement' = s
    /\ witness' = w
    /\ now' = now + elapsed
    /\ pc' = "proved"
    /\ UNCHANGED <<config, prev, tamper, vstatement, verdict, mvars, fvars, svars>>

\* time passes between two calls
Tick ==
    /\ pc = "proved"
    /\ tamper = "none"
    /\ now < MaxTime
    /\ now' = now + 1
    /\ pc' = "waited"
    /\ UNCHANGED <<config, cache, statement, witness, honest, prev, proof, tamper,
                   vstatement, verdict, mvars, fvars, svars>>

\* a second stark.generate_proof(s, w) with the arguments of the first
GenerateAgain(elapsed) ==
    /\ pc \in {"proved", "waited"}
    /\ tamper = "none"
    /\ now + elapsed <= MaxTime
    /\ \E g \in {generate_proof(config, cache, statement, witness, now, elapsed)} :
          /\ ~g.raised
          /\ honest' = Returned(g.proof)
          /\ proof' = Returned(g.proof)
          /\ cache' = g.cache
    /\ prev' = honest
    /\ now' = now + elapsed
    /\ pc' = "again"
    /\ UNCHANGED <<config, statement, witness, tamper, vstatement, verdict, mvars, fvars, svars>>

\* the caller edits proof['proof'][...] before verifying
Tampered(kind, new_proof_data) ==
    /\ pc = "proved"
    /\ tamper = "none"
    /\ new_proof_data # proof.proof
    /\ proof' = [proof EXCEPT !.proof = new_proof_data]
    /\ tamper' = kind
    /\ UNCHANGED <<config, cache, now, pc, statement, witness, honest, prev,
                   vstatement, verdict, mvars, fvars, svars>>

\* replacements for the hex string current: a foreign digest, a root of the
\* transcript, or current.upper()
RootReplacements(P, current) ==
    {HexOf(JunkDigest), P.trace_merkle_root, Upper(current)}
    \cup {P.fri_roots[k] : k \in 1..Len(P.fri_roots)}

TamperTraceRoot ==
    /\ pc = "proved"
    /\ \E r \in RootReplacements(proof.proof, proof.proof.trace_merkle_root) :
        Tampered("trace_root", [proof.proof EXCEPT !.trace_merkle_root = r])

TamperFriRoot ==
    /\ pc = "proved"
    /\ \E k \in 1..Len(proof.proof.fri_roots) :
        \E r \in RootReplacements(proof.proof, proof.proof.fri_roots[k]) :
            Tampered("fri_root", [proof.proof EXCEPT !.fri_roots[k] = r])

\* field elements used as replacement values
FieldSample == {0, 1, GOLDILOCKS_PRIME - 1}

TamperValue ==
    /\ pc = "proved"
    /\ \E i \in 1..Len(proof.proof.query_responses) :
        \E k \in 1..Len(proof.proof.query_responses[i].layers) :
            \E v \in FieldSample :
                Tampered("value",
                    [proof.proof EXCEPT !.query_responses[i].layers[k].value = Str(v)])

TamperProofDigest ==
    /\ pc = "proved"
    /\ \E i \in 1..Len(proof.proof.query_responses) :
        \E k \in 1..Len(proof.proof.query_responses[i].layers) :
            \E j \in 1..Len(proof.proof.query_responses[i].layers[k].merkle_proof) :
                \E r \in {HexOf(JunkDigest),
                          HexOf(SHA256(proof.proof.query_responses[i].layers[k].value)),
                          Upper(proof.proof.query_responses[i].layers[k]
                                     .merkle_proof[j].digest)} :
                    Tampered("proof_digest",
                        [proof.proof EXCEPT
                            !.query_responses[i].layers[k].merkle_proof[j].digest = r])

TamperSibling ==
    /\ pc = "proved"
    /\ \E i \in 1..Len(proof.proof.query_responses) :
        \E k \in 1..Len(proof.proof.query_responses[i].layers) :
            \E v \in FieldSample :
                Tampered("sibling",
                    [proof.proof EXCEPT
                        !.query_responses[i].layers[k].sibling_value = Str(v)])

TamperFinalPolynomial ==
    /\ pc = "proved"
    /\ \E k \in 1..Len(proof.proof.fri_final_polynomial) :
        \E c \in FieldSample :
            Tampered("final_polynomial",
                [proof.proof EXCEPT !.fri_final_polynomial[k] = Str(c)])

\* the caller removes query responses from the end of the list
TamperDropResponses ==
    /\ pc = "proved"
    /\ \E k \in 0..(Len(proof.proof.query_responses) - 1) :
        Tampered("dropped",
            [proof.proof EXCEPT
                !.query_responses = SubSeq(proof.proof.query_responses, 1, k)])

\* the caller replaces fri_final_polynomial by a list of n coefficients
TamperFinalLength ==
    /\ pc = "proved"
    /\ \E n \in 0..(config.num_queries + 2) :
        Tampered("final_length",
            [proof.proof EXCEPT !.fri_final_polynomial = List([k \in 1..n |-> Str(1)])])

\* the __main__ self-test: tampered_proof = dict(proof), then
\* tampered_proof['statement_hash'] replaced; proof['proof'] is left as it was
TamperTopStatementHash ==
    /\ pc = "proved"
    /\ tamper = "none"
    /\ \E h \in {DecOf(JunkDigest)} \cup {DecOf(StatementHash(s)) : s \in Statements} :
          /\ h # proof.top.statement_hash
          /\ proof' = [proof EXCEPT !.top.statement_hash = h]
    /\ tamper' = "top_statement_hash"
    /\ UNCHANGED <<config, cache, now, pc, statement, witness, honest, prev,
                   vstatement, verdict, mvars, fvars, svars>>

\* the caller replaces the index of one query response by another index below
\* extended_trace_length
TamperIndex ==
    /\ pc = "proved"
    /\ \E i \in 1..Len(proof.proof.query_responses) :
        \E idx \in 0..(proof.proof.extended_trace_length - 1) :
            Tampered("index", [proof.proof EXCEPT !.query_responses[i].index = idx])

\* int(text) of a decimal numeral
RECURSIVE ParseDec(_)
ParseDec(text) ==
    IF Len(text) = 0 THEN 0
    ELSE 10 * ParseDec(SubSeq(text, 1, Len(text) - 1)) + text[Len(text)]

\* test-zk-sec.py, TEST 3: the recorded challenge replaced by str(original + 1)
TamperChallenge ==
    /\ pc = "proved"
    /\ \E k \in 1..Len(proof.proof.fri_challenges) :
        Tampered("challenge",
            [proof.proof EXCEPT
                !.fri_challenges[k] = Str(ParseDec(proof.proof.fri_challenges[k]) + 1)])

\* A transcript written without running the prover: the statement hash and the
\* field prime are right, one arbitrary 64-hex string serves as trace root and
\* as sole FRI root, the query responses open nothing.  Keys the forger leaves
\* out hold what proof_data.get(key, default) returns for them.
EmptyResponse(with_layer) ==
    [index |-> 0,
     layers |-> IF with_layer
                THEN << [value |-> Str(0), sibling_value |-> Str(0),
                         merkle_proof |-> << >>] >>
                ELSE << >>]

Fabricated(s, count, with_layer) ==
    [version |-> "STARK-2.0",
     protocol |-> "ZK-STARK (AIR + FRI)",
     trace_length |-> 0,
     extended_trace_length |-> 0,
     blowup_factor |-> 0,
     trace_merkle_root |-> HexOf(JunkDigest),
     fri_roots |-> <<HexOf(JunkDigest)>>,
     fri_challenges |-> << >>,
     fri_final_polynomial |-> << >>,
     query_indices |-> << >>,
     query_responses |-> List([i \in 1..count |-> EmptyResponse(with_layer)]),
     field_prime |-> Str(GOLDILOCKS_PRIME),
     num_queries |-> 0,
     statement_hash |-> DecOf(StatementHash(s)),
     statement |-> s,
     public_output |-> 0,
     generation_time |-> 0,
     timestamp |-> 0,
     air_satisfied |-> TRUE,
     verified |-> TRUE]

Fabricate(s, count, with_layer) ==
    /\ pc = "idle"
    /\ proof' = Returned(Fabricated(s, count, with_layer))
    /\ statement' = s
    /\ tamper' = "fabricated"
    /\ pc' = "proved"
    /\ UNCHANGED <<config, cache, now, witness, honest, prev, vstatement, verdict, mvars, fvars, svars>>

\* stark.verify_proof(proof, s)
VerifyProof(s) ==
    /\ pc = "proved"
    /\ tamper # "none" => s = statement
    /\ verdict' = verify_proof(config, proof, s)
    /\ vstatement' = s
    /\ pc' = "verified"
    /\ UNCHANGED <<config, cache, now, statement, witness, honest, prev, proof,
                   tamper, mvars, fvars, svars>>

Next ==
    \/ \E s \in Statements, w \in Witnesses, e \in 0..MaxElapsed : GenerateProof(s, w, e)
    \/ Tick
    \/ \E e \in 0..MaxElapsed : GenerateAgain(e)
    \/ TamperTraceRoot
    \/ TamperFriRoot
    \/ TamperValue
    \/ TamperProofDigest
    \/ TamperSibling
    \/ TamperFinalPolynomial
    \/ TamperChallenge
    \/ TamperDropResponses
    \/ TamperFinalLength
    \/ TamperTopStatementHash
    \/ TamperIndex
    \/ \E s \in Statements, with_layer \in BOOLEAN :
          \E count \in {(config.num_queries + 1) \div 2, config.num_queries} :
              Fabricate(s, count, with_layer)
    \/ \E s \in Statements : VerifyProof(s)

Spec == Init /\ [][Next]_vars

(***************************************************************************)
(* Merkle scenario: build a tree, prove an index, verify a leaf            *)
(***************************************************************************)
LEAF_A == 1
LEAF_B == 2

RECURSIVE SeqsUpTo(_, _)
SeqsUpTo(alphabet, n) ==
    IF n = 0 THEN {<< >>}
    ELSE LET shorter == SeqsUpTo(alphabet, n - 1)
         IN shorter \cup {Append(sq, a) : sq \in shorter, a \in alphabet}

\* leaf lists: every list over two leaves, and lists of pairwise distinct leaves
LeafLists ==
    (SeqsUpTo({<<LEAF_A>>, <<LEAF_B>>}, MaxLeaves) \ {<< >>})
    \cup {List([i \in 1..n |-> Str(i + 2)]) : n \in 1..(MaxLeaves + 1)}

\* tree = MerkleTree(L)
MerkleBuild(L) ==
    /\ mpc = "new"
    /\ mleaves' = L
    /\ mpc' = "built"
    /\ UNCHANGED <<pvars, fvars, svars, mindex, mproof, mleaf, mok, mgiven>>

\* proof = tree.prove(i)
MerkleProve(i) ==
    /\ mpc = "built"
    /\ i < Len(mleaves)
    /\ mindex' = i
    /\ mproof' = prove(build_tree(mleaves), i)
    /\ mpc' = "proved"
    /\ UNCHANGED <<pvars, fvars, svars, mleaves, mleaf, mok, mgiven>>

\* byte strings offered to verify in place of the leaf: the leaf itself, the other
\* leaves of the tree, a foreign leaf, and the concatenation of two digests
LeafCandidates ==
    {mleaves[i] : i \in 1..Len(mleaves)}
    \cup {<<JUNK>>}
    \cup {SHA256(mleaves[mindex + 1]) \o SHA256(mleaves[mindex + 1])}

\* MerkleTree.verify(leaf, index, proof, tree.root())
MerkleVerify ==
    /\ mpc = "proved"
    /\ \E leaf \in LeafCandidates, index \in 0..(Len(mleaves) - 1) :
          /\ mleaf' = leaf
          /\ mgiven' = index
          /\ mok' = verify(leaf, index, mproof, root(build_tree(mleaves)))
    /\ mpc' = "checked"
    /\ UNCHANGED <<pvars, fvars, svars, mleaves, mindex, mproof>>

NextMerkle ==
    \/ \E L \in LeafLists : MerkleBuild(L)
    \/ \E i \in 0..MaxLeaves : MerkleProve(i)
    \/ MerkleVerify

InitMerkle == config = DefaultConfig /\ InitCommon

SpecMerkle == InitMerkle /\ [][NextMerkle]_vars


(***************************************************************************)
(* Field scenario: calls on one CUDAFiniteField object, whose root cache   *)
(* lives as long as the object.  The cache is written by                   *)
(* get_primitive_root only (fft and get_evaluation_domain reach it through *)
(* that method), so every cache a field object can hold is reached by      *)
(* get_primitive_root and get_evaluation_domain calls; the scenario makes  *)
(* some of those and then one call of any method.                          *)
(***************************************************************************)
\* the field elements
FieldElements == 0..(GOLDILOCKS_PRIME - 1)

\* the entries of the vectors handed to fft and from_evaluations
VectorValues == {0, 1, GOLDILOCKS_PRIME - 1}

Vectors == UNION {[1..n -> VectorValues] : n \in 1..MaxVectorLen}

\* what a call leaves in the variables of the scenario
Called(op, args, raised, result, input, new_cache) ==
    /\ fcalls <= MaxEarlierCalls
    /\ fop \in {"none", "get_primitive_root", "get_evaluation_domain"}
    /\ fcalls' = fcalls + 1
    /\ fop' = op
    /\ fargs' = args
    /\ fraised' = raised
    /\ fresult' = result
    /\ finput' = input
    /\ cache' = new_cache
    /\ UNCHANGED <<config, now, pc, statement, witness, honest, prev, proof, tamper, vstatement, verdict, mvars, svars>>

\* field.inv(a)
FieldInv(a) ==
    Called("inv", <<a>>, InvRaises(a), IF InvRaises(a) THEN << >> ELSE inv(a), << >>, cache)

\* field.div(a, b)
FieldDiv(a, b) ==
    Called("div", <<a, b>>, DivRaises(a, b), IF DivRaises(a, b) THEN << >> ELSE div(a, b), << >>, cache)

\* field.pow(a, e)
FieldPow(a, e) ==
    Called("pow", <<a, e>>, FALSE, pow(a, e), << >>, cache)

\* field.get_primitive_root(order)
GetPrimitiveRoot(order) ==
    Called("get_primitive_root", <<order>>, FALSE, get_primitive_root(cache, order), << >>, CacheAfterRoot(cache, order))

\* field.get_evaluation_domain(size)
GetEvaluationDomain(size) ==
    Called("get_evaluation_domain", <<size>>, FALSE, get_evaluation_domain(cache, size), << >>, CacheAfterDomain(cache, size))

\* field.fft(v, inverse)
FieldFft(v, inverse) ==
    Called("fft", <<v, inverse>>, FftRaises(v),
           IF FftRaises(v) THEN << >> ELSE fft(cache, v, inverse),
           IF FftRaises(v) THEN v ELSE InputAfterFft(v, inverse),
           IF FftRaises(v) THEN cache ELSE CacheAfterFft(cache, Len(v)))

\* field.fft(result, not inverse) on what the last fft call returned
FieldFftBack ==
    /\ fop = "fft"
    /\ ~fraised
    /\ fcalls' = fcalls + 1
    /\ fop' = "fft_back"
    /\ fresult' = fft(cache, fresult, ~fargs[2])
    /\ finput' = InputAfterFft(finput, ~fargs[2])
    /\ cache' = CacheAfterFft(cache, Len(fresult))
    /\ UNCHANGED <<config, now, pc, statement, witness, honest, prev, proof, tamper, vstatement, verdict, mvars, svars, fargs, fraised>>

\* Polynomial.from_evaluations(v, field.get_evaluation_domain(len(v)), field)
FromEvaluations(v) ==
    Called("from_evaluations", <<v, get_evaluation_domain(cache, Len(v))>>, FALSE,
           from_evaluations(CacheAfterDomain(cache, Len(v)), v, get_evaluation_domain(cache, Len(v))),
           << >>, CacheAfterTracePoly(cache, Len(v)))

NextField ==
    \/ \E a \in FieldElements : FieldInv(a)
    \/ \E a \in VectorValues, b \in FieldElements : FieldDiv(a, b)
    \/ \E a \in FieldElements, e \in {0, 1, GOLDILOCKS_PRIME - 2, GOLDILOCKS_PRIME - 1} : FieldPow(a, e)
    \/ \E order \in 1..MaxOrder : GetPrimitiveRoot(order)
    \/ \E size \in 1..MaxOrder : GetEvaluationDomain(size)
    \/ \E v \in Vectors, inverse \in BOOLEAN : FieldFft(v, inverse)
    \/ FieldFftBack
    \/ \E v \in Vectors : FromEvaluations(v)

InitField == config = DefaultConfig /\ InitCommon

SpecField == InitField /\ [][NextField]_vars

(***************************************************************************)
(* Step scenario: one call of generate_proof, statement by statement.  The *)
(* variable events records each commitment as it is built and each         *)
(* Fiat-Shamir draw as it is made, with the bytes the draw hashes.         *)
(***************************************************************************)
\* the loop condition of FRI.commit with only its layer test
CommitContinuesByLayer(cfg, current_domain, layer) == layer < cfg.num_fri_layers

\* the loop condition of FRI.commit
CommitContinues(cfg, current_domain, layer) ==
    Len(current_domain) > cfg.num_queries * 2 /\ layer < cfg.num_fri_layers

\* an entry of events
Event(kind, layer, digest, input) ==
    [kind |-> kind, layer |-> layer, root |-> digest, input |-> input]

\* str(e).encode() for each evaluation
EvalBytes(evaluations) == List([i \in 1..Len(evaluations) |-> Str(evaluations[i])])

\* step 1: trace = self.generate_execution_trace(statement, witness)
StepTrace(s, w) ==
    /\ step = "start"
    /\ statement' = s
    /\ witness' = w
    /\ run' = [run EXCEPT !.trace = generate_execution_trace(config, w)]
    /\ step' = "trace"
    /\ UNCHANGED <<config, cache, now, pc, honest, prev, proof, tamper, vstatement,
                   verdict, mvars, fvars, events>>

\* step 2: raise ValueError unless the trace satisfies the AIR
StepAir ==
    /\ step = "trace"
    /\ step' = IF evaluate_all_constraints(run.trace) THEN "air" ELSE "raised"
    /\ UNCHANGED <<pvars, mvars, fvars, run, events>>

\* steps 3 and 4: the trace polynomial and its evaluations on the extended domain
StepExtend ==
    /\ step = "air"
    /\ \E d \in {ProverDomains(config, cache, run.trace)} :
          /\ run' = [run EXCEPT !.domain = d.domain,
                                !.trace_poly = d.trace_poly,
                                !.extended_domain = d.extended_domain,
                                !.extended_evaluations =
                                    evaluate_domain(d.trace_poly, d.extended_domain)]
          /\ cache' = d.cache
    /\ step' = "extended"
    /\ UNCHANGED <<config, now, pc, statement, witness, honest, prev, proof, tamper,
                   vstatement, verdict, mvars, fvars, events>>

\* step 5, trace_merkle = MerkleTree(eval_bytes), and the entry of FRI.commit
StepCommitTrace ==
    /\ step = "extended"
    /\ run' = [run EXCEPT !.trace_root = EvaluationsRoot(run.extended_evaluations),
                          !.current_poly = run.trace_poly,
                          !.current_domain = run.extended_domain,
                          !.layer = 0,
                          !.polynomials = <<run.trace_poly>>]
    /\ events' = Append(events, Event("trace_commitment", 0,
                            EvaluationsRoot(run.extended_evaluations), << >>))
    /\ step' = "loop"
    /\ UNCHANGED <<pvars, mvars, fvars>>

\* FRI.commit, steps 1 and 2 of the loop body: the layer's Merkle tree
CommitTree ==
    /\ step = "loop"
    /\ CommitContinues(config, run.current_domain, run.layer)
    /\ \E eval_bytes \in {EvalBytes(evaluate_domain(run.current_poly, run.current_domain))} :
          /\ run' = [run EXCEPT !.trees = Append(run.trees, TreeLeaves(eval_bytes))]
          /\ events' = Append(events, Event("tree", run.layer,
                                            root(build_tree(eval_bytes)), << >>))
    /\ step' = "tree"
    /\ UNCHANGED <<pvars, mvars, fvars>>

\* a challenge drawn from the trace root before the layer's tree is built
ChallengeBeforeTree ==
    /\ step = "loop"
    /\ CommitContinues(config, run.current_domain, run.layer)
    /\ run' = [run EXCEPT !.challenges =
                              Append(run.challenges, LayerChallenge(run.trace_root))]
    /\ events' = Append(events, Event("challenge", run.layer, << >>, run.trace_root))
    /\ step' = "challenge"
    /\ UNCHANGED <<pvars, mvars, fvars>>

\* FRI.commit, step 3 of the loop body: the challenge, hashed from tree.root()
CommitChallenge ==
    /\ step = "tree"
    /\ \E tree_root \in {root(build_tree(run.trees[Len(run.trees)]))} :
          /\ run' = [run EXCEPT !.challenges =
                                    Append(run.challenges, LayerChallenge(tree_root))]
          /\ events' = Append(events, Event("challenge", run.layer, << >>, tree_root))
    /\ step' = "challenge"
    /\ UNCHANGED <<pvars, mvars, fvars>>

\* FRI.commit, steps 4 and 5 of the loop body: the fold and the reduced domain
CommitFold ==
    /\ step = "challenge"
    /\ \E next_poly \in {Fold(run.current_poly, run.challenges[Len(run.challenges)])} :
          run' = [run EXCEPT !.current_poly = next_poly,
                             !.polynomials = Append(run.polynomials, next_poly),
                             !.current_domain = ReduceDomain(run.current_domain),
                             !.layer = run.layer + 1]
    /\ events' = Append(events, Event("fold", run.layer, << >>, << >>))
    /\ step' = "loop"
    /\ UNCHANGED <<pvars, mvars, fvars>>

\* FRI.commit: the loop condition fails, return trees, challenges, polynomials
CommitReturn ==
    /\ step = "loop"
    /\ ~CommitContinues(config, run.current_domain, run.layer)
    /\ step' = "committed"
    /\ UNCHANGED <<pvars, mvars, fvars, run, events>>

\* step 8: the query indices, hashed from trace_merkle.root() + b'queries'
StepQueryIndices ==
    /\ step = "committed"
    /\ run' = [run EXCEPT !.query_indices =
                  QueryIndices(config, run.trace_root, Len(run.extended_evaluations))]
    /\ events' = Append(events, Event("indices", run.layer, << >>,
                                      run.trace_root \o <<QUERIES>>))
    /\ step' = "indices"
    /\ UNCHANGED <<pvars, mvars, fvars>>

\* steps 9 and 10: the query responses and the returned object
StepReturn ==
    /\ step = "indices"
    /\ honest' = Returned(Transcript(config, statement, run.trace,
                      run.extended_evaluations, run.trace_root,
                      [trees |-> run.trees, challenges |-> run.challenges,
                       polynomials |-> run.polynomials],
                      run.query_indices, now, 0))
    /\ step' = "returned"
    /\ UNCHANGED <<config, cache, now, pc, statement, witness, prev, proof, tamper,
                   vstatement, verdict, mvars, fvars, run, events>>

NextSteps ==
    \/ \E s \in Statements, w \in Witnesses : StepTrace(s, w)
    \/ StepAir
    \/ StepExtend
    \/ StepCommitTrace
    \/ CommitTree
    \/ CommitChallenge
    \/ CommitFold
    \/ CommitReturn
    \/ StepQueryIndices
    \/ StepReturn

InitSteps == config \in Configs /\ InitCommon

SpecSteps == InitSteps /\ [][NextSteps]_vars


(***************************************************************************)
(* Properties                                                              *)
(***************************************************************************)
\* C1 (completeness): whenever verify_proof is given the object generate_proof
\* returned for (s, w), unchanged, together with the same statement s, under the
\* same STARKConfig, it returns true.
C1_Completeness ==
    (pc = "verified" /\ tamper = "none" /\ vstatement = statement) => verdict

C3_Determinism ==
    pc = "again" => prev = honest

\* C4 (commitment tamper-evidence): after the trace Merkle root, one FRI root,
\* one opened value or one inclusion-proof digest of an honest transcript was
\* replaced by a different value, verify_proof with the prover's statement
\* returns false.
C4_CommitmentTamper ==
    (pc = "verified" /\ tamper \in {"trace_root", "fri_root", "value", "proof_digest"})
        => ~verdict

\* C5 (final-polynomial tamper-evidence): after one coefficient of
\* fri_final_polynomial of an honest transcript was changed to a different field
\* element, verify_proof with the prover's statement returns false.
C5_FinalPolynomialTamper ==
    (pc = "verified" /\ tamper = "final_polynomial") => ~verdict

\* C6 (challenge tamper-evidence): after one recorded Fiat-Shamir challenge of an
\* honest transcript was replaced by original + 1, verify_proof with the
\* prover's statement returns false.
C6_ChallengeTamper ==
    (pc = "verified" /\ tamper = "challenge") => ~verdict

\* C7 (folding consistency): after only sibling_value of one layer of one query
\* response of an honest transcript was altered, verify_proof with the prover's
\* statement returns false.
C7_SiblingTamper ==
    (pc = "verified" /\ tamper = "sibling") => ~verdict

\* query response q carries, for FRI root number k, an opened value with a
\* non-empty inclusion proof that authenticates against that root
Authenticates(fri_roots, q, k) ==
    /\ k <= Len(q.layers)
    /\ Len(q.layers[k].merkle_proof) > 0
    /\ LayerAccepted(fri_roots, q.index, q.layers, k)

\* C8 (fabricated transcripts are rejected): verify_proof returns true only if
\* every query response of the transcript carries, for every FRI root, an opened
\* value whose inclusion proof authenticates against that root.
C8_AcceptedOnlyIfAuthenticated ==
    (pc = "verified" /\ verdict) =>
        \A i \in 1..Len(ProofData(proof).query_responses) :
            \A k \in 1..Len(ProofData(proof).fri_roots) :
                Authenticates(ProofData(proof).fri_roots,
                              ProofData(proof).query_responses[i], k)

\* C9 (Merkle completeness): for a non-empty leaf list L and an index i < |L|,
\* verify(L[i], i, MerkleTree(L).prove(i), MerkleTree(L).root()) returns true.
C9_MerkleCompleteness ==
    (mpc = "checked" /\ mleaf = mleaves[mindex + 1]) => mok

\* C10 (Merkle soundness): for a leaf list L, an index i < |L| and a byte string
\* different from L[i], verify with MerkleTree(L).prove(i) and
\* MerkleTree(L).root() returns false.
C10_MerkleSoundness ==
    (mpc = "checked" /\ mleaf # mleaves[mindex + 1]) => ~mok

\* C11 (field inverse): for 0 < a < p, inv(a) returns an element of [0, p) with
\* mul(a, inv(a)) = 1; inv(0) raises, and so does div(a, 0).
C11_FieldInverse ==
    /\ (fop = "inv" /\ fargs[1] # 0) =>
          (~fraised /\ fresult \in FieldElements /\ mul(fargs[1], fresult) = 1)
    /\ (fop = "inv" /\ fargs[1] = 0) => fraised
    /\ (fop = "div" /\ fargs[2] = 0) => fraised

\* C11, the case reached: inv(3) returned 6, and 3 * 6 = 18 = 1 mod 17.
C11_FieldInverse_Witness ==
    fop = "inv" /\ fargs = <<3>> /\ ~fraised /\ fresult = 6

\* C12 as stated (Fermat): for every a in [0, p), pow(a, p - 1) = 1.
C12_Fermat ==
    (fop = "pow" /\ fargs[2] = GOLDILOCKS_PRIME - 1) => fresult = 1

\* C12 as amended: for every a with 0 < a < p, pow(a, p - 1) = 1.
C12_FermatNonZero ==
    (fop = "pow" /\ fargs[2] = GOLDILOCKS_PRIME - 1 /\ fargs[1] # 0) => fresult = 1

\* C12, the case reached: pow(3, p - 1) returned 1.
C12_FermatNonZero_Witness ==
    fop = "pow" /\ fargs = <<3, GOLDILOCKS_PRIME - 1>> /\ fresult = 1

\* w^k mod p by k multiplications
RECURSIVE Power(_, _)
Power(w, k) == IF k = 0 THEN 1 ELSE (w * Power(w, k - 1)) % GOLDILOCKS_PRIME

\* w^n = 1 and w^k # 1 for 0 < k < n
IsPrimitiveRoot(w, n) ==
    Power(w, n) = 1 /\ \A k \in 1..(n - 1) : Power(w, k) # 1

\* g^((p - 1) / n)
RootOfOrder(n) == Power(generator, (GOLDILOCKS_PRIME - 1) \div n)

\* C13 (evaluation domain on a subgroup): for n dividing p - 1, whatever was
\* called before, get_primitive_root(n) returns w = g^((p-1)/n), a primitive n-th
\* root of unity, and get_evaluation_domain(n) returns w^0, ..., w^(n-1), pairwise
\* distinct and non-zero.
C13_EvaluationDomain ==
    /\ (fop = "get_primitive_root" /\ (GOLDILOCKS_PRIME - 1) % fargs[1] = 0) =>
          (~fraised /\ fresult = RootOfOrder(fargs[1]) /\ IsPrimitiveRoot(fresult, fargs[1]))
    /\ (fop = "get_evaluation_domain" /\ (GOLDILOCKS_PRIME - 1) % fargs[1] = 0) =>
          /\ ~fraised
          /\ Len(fresult) = fargs[1]
          /\ \A i \in 1..fargs[1] :
                fresult[i] = Power(RootOfOrder(fargs[1]), i - 1) /\ fresult[i] # 0
          /\ \A i, j \in 1..fargs[1] : i # j => fresult[i] # fresult[j]

\* C13, the case reached: get_primitive_root(8) was called a second time and
\* returned 7^2 = 15 again.
C13_EvaluationDomain_Witness ==
    /\ fop = "get_primitive_root"
    /\ fargs = <<8>>
    /\ fcalls = 2
    /\ DOMAIN cache = {8}
    /\ fresult = 15

\* C14 (domain mismatch is an error): for n not dividing p - 1,
\* get_primitive_root(n) and get_evaluation_domain(n) raise and leave no entry
\* for n in the cache.
C14_DomainMismatchFails ==
    (fop \in {"get_primitive_root", "get_evaluation_domain"}
        /\ (GOLDILOCKS_PRIME - 1) % fargs[1] # 0) =>
        (fraised /\ fargs[1] \notin DOMAIN cache)

\* C15 (NTT round trip): for a vector v of power-of-two length dividing p - 1,
\* fft(fft(v), inverse=True) = v and fft(fft(v, inverse=True)) = v, and the
\* caller's vector is as it was after each call.
C15_NttRoundTrip ==
    /\ (fop = "fft" /\ FftCompatible(Len(fargs[1]))) =>
          (~fraised /\ finput = fargs[1])
    /\ (fop = "fft_back" /\ FftCompatible(Len(fargs[1]))) =>
          (fresult = fargs[1] /\ finput = fargs[1])

\* C15, the case reached: a vector of four elements, not all equal, went through
\* fft and then fft(inverse=True).
C15_NttRoundTrip_Witness ==
    /\ fop = "fft_back"
    /\ Len(fargs[1]) = 4
    /\ fargs[1][1] # fargs[1][2]
    /\ ~fargs[2]
    /\ fresult = fargs[1]

\* C16 (interpolation by inverse NTT): for a vector v of power-of-two length n
\* dividing p - 1, P = from_evaluations(v, domain) has degree < n and
\* P.evaluate(w^i) = v[i] for every i < n, w = g^((p-1)/n).
C16_Interpolation ==
    (fop = "from_evaluations" /\ FftCompatible(Len(fargs[1]))) =>
        /\ ~fraised
        /\ degree(fresult) < Len(fargs[1])
        /\ \A i \in 1..Len(fargs[1]) :
              evaluate(fresult, Power(RootOfOrder(Len(fargs[1])), i - 1)) = fargs[1][i]

\* C16, the case reached: four evaluations interpolated by a polynomial of
\* degree 3.
C16_Interpolation_Witness ==
    /\ fop = "from_evaluations"
    /\ Len(fargs[1]) = 4
    /\ degree(fresult) = 3

\* C17 (FRI commit ends at a low-degree polynomial): the final polynomial of
\* the transcript generate_proof returns has degree <= num_queries.
C17_FinalDegreeBound ==
    (pc = "proved" /\ tamper = "none") =>
        degree(ProofData(proof).fri_final_polynomial) <= config.num_queries

\* C18 (minimum number of query responses): verify_proof returns false for
\* every transcript with fewer than ceil(num_queries / 2) query responses.
C18_MinimumResponses ==
    (pc = "verified"
        /\ 2 * Len(ProofData(proof).query_responses) < config.num_queries) => ~verdict

\* C19 (final-polynomial degree bound in the verifier): a transcript that passes
\* every other check is accepted exactly when the degree of its final polynomial
\* (number of coefficients minus one) is at most num_queries.
C19_VerifierDegreeBound ==
    (pc = "verified" /\ tamper = "final_length"
        /\ verify_proof(config, honest, statement) /\ vstatement = statement) =>
        (verdict <=> degree(ProofData(proof).fri_final_polynomial) <= config.num_queries)

\* C20 (the prover aborts on a domain mismatch): generate_proof returns a
\* transcript only when trace_length and trace_length * blowup_factor are
\* powers of two dividing p - 1.
C20_ProverAborts ==
    (pc = "proved" /\ tamper = "none") =>
        /\ FftCompatible(config.trace_length)
        /\ FftCompatible(config.trace_length * config.blowup_factor)

\* C21 (the extension domain is a disjoint coset): the extended domain that
\* generate_proof builds has trace_length * blowup_factor pairwise distinct
\* elements, is of the form s * w^i for one offset s # 0 and one w, and shares no
\* element with the trace domain.
C21_DisjointCoset ==
    step = "extended" =>
        /\ Len(run.extended_domain) = config.trace_length * config.blowup_factor
        /\ \A i, j \in 1..Len(run.extended_domain) :
              i # j => run.extended_domain[i] # run.extended_domain[j]
        /\ \E s \in 1..(GOLDILOCKS_PRIME - 1), w \in 1..(GOLDILOCKS_PRIME - 1) :
              \A i \in 1..Len(run.extended_domain) :
                  run.extended_domain[i] = mul(s, Power(w, i - 1))
        /\ \A i \in 1..Len(run.extended_domain), j \in 1..Len(run.domain) :
              run.extended_domain[i] # run.domain[j]

\* C22 (witness hiding): the transcript generate_proof returns holds no value
\* equal to the trace seed trace[0]: not public_output, not an opened value or
\* sibling value, not a coefficient of the final polynomial.
C22_WitnessHiding ==
    step = "returned" =>
        /\ ProofData(honest).public_output # run.trace[1]
        /\ \A i \in 1..Len(ProofData(honest).query_responses) :
              \A k \in 1..Len(ProofData(honest).query_responses[i].layers) :
                  /\ ProofData(honest).query_responses[i].layers[k].value
                        # Str(run.trace[1])
                  /\ ProofData(honest).query_responses[i].layers[k].sibling_value
                        # Str(run.trace[1])
        /\ \A k \in 1..Len(ProofData(honest).fri_final_polynomial) :
              ProofData(honest).fri_final_polynomial[k] # Str(run.trace[1])

\* C23 (Fiat-Shamir ordering): in every run of generate_proof the challenge of
\* layer k is drawn after the Merkle tree of layer k is built and before the fold
\* of layer k, and the query indices are drawn after the trace commitment and
\* after every FRI layer commitment.
C23_FiatShamirOrdering ==
    \A n \in 1..Len(events) :
        /\ events[n].kind = "challenge" =>
              \E m \in 1..(n - 1) :
                  events[m].kind = "tree" /\ events[m].layer = events[n].layer
        /\ events[n].kind = "fold" =>
              \E m \in 1..(n - 1) :
                  events[m].kind = "challenge" /\ events[m].layer = events[n].layer
        /\ events[n].kind = "indices" =>
              /\ \E m \in 1..(n - 1) : events[m].kind = "trace_commitment"
              /\ \A m \in 1..Len(events) :
                    events[m].kind \in {"trace_commitment", "tree"} => m < n

\* C23, the case reached: a finished run with two FRI layers, whose events end
\* with the draw of the query indices.
C23_FiatShamirOrdering_Witness ==
    /\ step = "returned"
    /\ Len(run.challenges) = 2
    /\ events[Len(events)].kind = "indices"

\* whether the byte string part occurs in the byte string whole
Contains(whole, part) ==
    \E o \in 0..(Len(whole) - Len(part)) : SubSeq(whole, o + 1, o + Len(part)) = part

\* C24 (Fiat-Shamir draws cover the transcript so far): the bytes hashed for a
\* draw (a layer challenge, the query indices) contain the root of every
\* commitment (trace commitment, FRI layer tree) built before the draw.
C24_DrawsCoverTranscript ==
    \A n \in 1..Len(events) :
        events[n].kind \in {"challenge", "indices"} =>
            \A m \in 1..(n - 1) :
                events[m].kind \in {"trace_commitment", "tree"} =>
                    Contains(events[n].input, events[m].root)

\* C25 (statement-hash tamper on the returned object): when the top-level
\* statement_hash of the object generate_proof(s, w) returned is replaced by a
\* different value, verify_proof(R', s) returns false.
C25_TopLevelHashTamper ==
    (pc = "verified" /\ tamper = "top_statement_hash" /\ vstatement = statement) =>
        ~verdict

\* the least k with ceil(n / 2^k) <= bound
RECURSIVE LeastHalvings(_, _)
LeastHalvings(n, bound) ==
    IF n <= bound THEN 0 ELSE 1 + LeastHalvings((n + 1) \div 2, bound)

\* ceil(n / 2^k)
RECURSIVE CeilHalved(_, _)
CeilHalved(n, k) == IF k = 0 THEN n ELSE CeilHalved((n + 1) \div 2, k - 1)

\* the smaller of two numbers
Min(a, b) == IF a <= b THEN a ELSE b

\* what C26 says of the three lists FRI.commit returns on a domain of size n
CommitShape(n) ==
    /\ Len(run.trees) = Min(config.num_fri_layers, LeastHalvings(n, 2 * config.num_queries))
    /\ Len(run.challenges) = Len(run.trees)
    /\ Len(run.polynomials) = Len(run.trees) + 1
    /\ \A k \in 1..Len(run.trees) :
          /\ Len(run.trees[k]) = CeilHalved(n, k - 1)
          /\ Len(run.polynomials[k + 1]) <= (Len(run.polynomials[k]) + 1) \div 2

\* the number of folds FRI.commit still has to make
Remaining ==
    Min(config.num_fri_layers - run.layer,
        LeastHalvings(Len(run.current_domain), 2 * config.num_queries))

\* C26 (FRI commit loop shape): FRI.commit, entered on a domain of size N, always
\* returns: the loop goes on exactly while a non-negative measure is positive and
\* every fold lowers the measure by one.  What it returns has min(L, k*) trees,
\* k* the least k with ceil(N / 2^k) <= 2q, as many challenges as trees, one
\* polynomial more than trees, ceil(N / 2^k) leaves in the tree of layer k, and
\* at most ceil(len_k / 2) coefficients in the polynomial of layer k + 1.
C26_CommitLoopShape ==
    /\ [](step = "committed" => CommitShape(Len(run.extended_domain)))
    /\ [](step = "loop" =>
            /\ Remaining >= 0
            /\ CommitContinues(config, run.current_domain, run.layer) <=> Remaining > 0)
    /\ [][(step = "challenge" /\ step' = "loop") => Remaining' = Remaining - 1]_vars

\* C26, the case reached: FRI.commit has returned after two folds, stopped by
\* the size of the domain and not by the layer count.
C26_CommitLoopShape_Witness ==
    /\ step = "committed"
    /\ Len(run.trees) = 2
    /\ config.num_fri_layers > 2

\* the domain of FRI layer k (the first layer is 1)
RECURSIVE LayerDomain(_)
LayerDomain(k) ==
    IF k = 1 THEN run.extended_domain ELSE ReduceDomain(LayerDomain(k - 1))

\* the folding relation between the opening of layer k and that of layer k + 1
\* in one query response
FoldingHolds(q, k, x) ==
    /\ x # 0
    /\ add(div(add(ParseDec(q.layers[k].value), ParseDec(q.layers[k].sibling_value)), 2),
           mul(run.challenges[k],
               div(sub(ParseDec(q.layers[k].value), ParseDec(q.layers[k].sibling_value)),
                   mul(2, x))))
       = ParseDec(q.layers[k + 1].value)

\* C27 (honest openings satisfy the folding relation): in the transcript
\* generate_proof returns, for each query and each layer k followed by another
\* layer, with v the opened value, s the sibling value, x the domain point at the
\* layer's index and alpha the layer's challenge,
\* (v + s)/2 + alpha * (v - s)/(2x) is the value opened at layer k + 1.
C27_FoldingRelation ==
    step = "returned" =>
        \A i \in 1..Len(ProofData(honest).query_responses) :
            \A k \in 1..(Len(ProofData(honest).query_responses[i].layers) - 1) :
                FoldingHolds(ProofData(honest).query_responses[i], k,
                    LayerDomain(k)[(ProofData(honest).query_responses[i].index
                                        \div (2 ^ (k - 1))) + 1])

\* C28 (trace generation): for a witness whose secret is an integer,
\* generate_execution_trace returns trace_length elements with
\* trace[i] = (secret + i) mod p, the AIR constraints hold on the trace,
\* generate_proof does not raise, and public_output is
\* (secret + trace_length - 1) mod p.
C28_TraceGeneration ==
    (step # "start" /\ ~WitnessSecret(witness).isstr) =>
        /\ step # "raised"
        /\ Len(run.trace) = config.trace_length
        /\ \A i \in 1..Len(run.trace) :
              run.trace[i] = (WitnessSecret(witness).num + i - 1) % GOLDILOCKS_PRIME
        /\ evaluate_all_constraints(run.trace)
        /\ step = "returned" =>
              ProofData(honest).public_output
                  = (WitnessSecret(witness).num + config.trace_length - 1) % GOLDILOCKS_PRIME

\* C28, the case reached: a returned transcript whose trace starts at p - 1 and
\* wraps to 0.
C28_TraceGeneration_Witness ==
    /\ step = "returned"
    /\ ~WitnessSecret(witness).isstr
    /\ Len(run.trace) >= 2
    /\ run.trace[1] = GOLDILOCKS_PRIME - 1
    /\ run.trace[2] = 0

\* C29 (Merkle proofs bind the position): for pairwise distinct leaves and
\* i # j, MerkleTree.verify(L[i], j, MerkleTree(L).prove(i), root) is false.
C29_PositionBinding ==
    (mpc = "checked"
        /\ (\A a, b \in 1..Len(mleaves) : a # b => mleaves[a] # mleaves[b])
        /\ mleaf = mleaves[mindex + 1]
        /\ mgiven # mindex) => ~mok

\* C30 (query indices are checked by the verifier): when the index of a query
\* response of an honest transcript is replaced by another index below the
\* extended length, so that it differs from the index drawn from the trace root,
\* verify_proof returns false.
C30_QueryIndicesChecked ==
    (pc = "verified" /\ tamper = "index"
        /\ \E i \in 1..Len(ProofData(proof).query_responses) :
              ProofData(proof).query_responses[i].index
                  # QueryIndex(QuerySeed(FromHex(ProofData(proof).trace_merkle_root)),
                               i - 1, ProofData(proof).extended_trace_length)) => ~verdict

====
